---------------------------- MODULE Spec2Model ----------------------------
(***************************************************************************)
(* A model of IBPHMMinference (src/IBPHMMinference.py), the driver of the  *)
(* IBP-HMM Gibbs sampler.                                                  *)
(*                                                                         *)
(* The function is one straight-line routine; the model follows it         *)
(* statement by statement with a program counter.  The file is a           *)
(* line-by-line port of a MATLAB routine and several statements are still  *)
(* in MATLAB form.  Reading conventions used throughout:                   *)
(*   - an indexed assignment into a name that was never bound              *)
(*     (hyperparams[...] = ..., F[jj, ...] = 1) creates the container,     *)
(*     empty / all zero, and then stores into it;                          *)
(*   - range(0:n) is range(0, n): n passes, loop variable 0 .. n-1, and    *)
(*     inside such a loop x(ii) is the slot of object ii;                  *)
(*   - lines 98-100, which are MATLAB verbatim (for ii=2:n, x(a:b) = v),   *)
(*     are 1-based with inclusive ranges.                                  *)
(* The collaborators (initializeStructs, sample_dist, sample_zs_init,      *)
(* update_Ustats, sample_theta) are not part of the file.  Each call is    *)
(* recorded in the history variable calls with the arguments it was given, *)
(* and what it returns is an opaque value tagged with the call that made   *)
(* it, so that two different results are never confused.                   *)
(***************************************************************************)
EXTENDS Integers, Sequences, FiniteSets, TLC

\* ------------------------------------------------------------------ bounds
MaxObj == 2          \* objects in data_struct
MaxLen == 2          \* length of an object's true_labels
MaxZLen == 3         \* length of an object's z_init
MaxPrior == 2        \* shape and rate hyperparameters range over 1..MaxPrior
MaxNiter == 3        \* settings['Niter']
MaxSaveMin == 2      \* settings['saveMin'], when present

\* Values of the ground-truth labels; none is 0, the fill value of np.zeros.
TrueLabels == {1, 2}
\* Values of the initial state labels (state indices).
StateLabels == {0, 1, 2}

DefaultCols == 20

VARIABLES
    pc,                  \* position in the routine
    data_struct,         \* sequence of per-object records
    model,               \* model dict
    settings,            \* settings dict: a function on the keys present
    trial, Niter,        \* line 13, line 17
    obsModel, obsModelType, HMMhyperparams, numObj,   \* lines 27-30
    hyperparams,         \* function on the keys assigned so far
    F,                   \* feature matrix: its shape and the entries equal to 1
    Fsrc,                \* which branch of line 40 built F
    jj,                  \* loop variable of line 41
    theta, Ustats, stateCounts, S, dist_struct,
    Ustats_temp, stateSeq, INDS,
    numInitThetaSamples,
    ii,                  \* loop variable of lines 70, 91 and 99
    total_length, length_ii, cummlength, z_tot, true_labels_tot,
    calls,               \* history: the collaborator calls made, in order
    settings_in          \* history: the settings dict as it was passed in

vars == << pc, data_struct, model, settings, trial, Niter, obsModel,
           obsModelType, HMMhyperparams, numObj, hyperparams, F, Fsrc, jj,
           theta, Ustats, stateCounts, S, dist_struct, Ustats_temp,
           stateSeq, INDS, numInitThetaSamples, ii, total_length, length_ii,
           cummlength, z_tot, true_labels_tot, calls, settings_in >>

\* ----------------------------------------------------------------- helpers
SeqsUpTo(A, n) == UNION { [1..k -> A] : k \in 0..n }

Range(s) == { s[k] : k \in DOMAIN s }

Max(a, b) == IF a >= b THEN a ELSE b

SetMax(A) == CHOOSE m \in A : \A x \in A : x <= m

RECURSIVE GCD(_, _)
GCD(a, b) == IF b = 0 THEN a ELSE GCD(b, a % b)

\* a / b for a >= 0 and b # 0, as the fraction in lowest terms <<num, den>>
\* with den > 0.
Div(a, b) ==
    LET n == IF b < 0 THEN -b ELSE b
        g == GCD(a, n)
    IN  << (IF b < 0 THEN -1 ELSE 1) * (a \div g), n \div g >>

\* The literal 1 as a fraction.
One == << 1, 1 >>

\* np.zeros([1, n])
Zeros(n) == [k \in 1..n |-> 0]

\* A faulty np.cumsum: the lengths themselves, not their running sums.
CumSumFlat(s) == s

\* np.cumsum
RECURSIVE CumSumTo(_, _)
CumSumTo(s, k) == IF k = 0 THEN 0 ELSE CumSumTo(s, k - 1) + s[k]
CumSum(s) == [k \in DOMAIN s |-> CumSumTo(s, k)]

\* A faulty x(a:b) = v: the elements of v stored last to first.
AssignRangeReversed(x, a, b, v) ==
    [k \in DOMAIN x |-> IF a <= k /\ k <= b THEN v[b - k + 1] ELSE x[k]]

\* x(a:b) = v, 1-based, inclusive; v has b - a + 1 elements.
AssignRange(x, a, b, v) ==
    [k \in DOMAIN x |-> IF a <= k /\ k <= b THEN v[k - a + 1] ELSE x[k]]

\* unique(v): the distinct values of v.
unique(v) == Range(v)

\* The value a collaborator returns: opaque, tagged by the call and the
\* position of the value in the returned tuple.
Ret(fn, field, at) == [by |-> fn, field |-> field, at |-> at]

Call(fn, args, ret) == [fn |-> fn, args |-> args, ret |-> ret]


\* ------------------------------------------------------------------ inputs
\* settings: 'trial', 'Niter' and 'saveDir' are always present; 'saveMin',
\* 'formZinit' and 'formZInit' may each be present or not.
SettingsOf(n, sm, fz, fZ) ==
    LET base == ("trial" :> 1) @@ ("Niter" :> n) @@ ("saveDir" :> "stats")
        a == IF sm = 0 THEN base ELSE base @@ ("saveMin" :> sm)
        b == IF fz THEN a @@ ("formZinit" :> 1) ELSE a
    IN  IF fZ THEN b @@ ("formZInit" :> 1) ELSE b

PriorsOf(aa, ba, ak, bk, ag, bg) ==
    [a_alpha |-> aa, b_alpha |-> ba, a_kappa |-> ak, b_kappa |-> bk,
     a_gamma |-> ag, b_gamma |-> bg]

ModelOf(priors) ==
    [obsModel |-> [type |-> "AR"], HMMmodel |-> [params |-> priors]]

Object(z, t) == [z_init |-> z, true_labels |-> t]

\* A fixed observation set of n objects: object k has k - 1 time steps.
PlainData(n) ==
    [k \in 1..n |-> Object([s \in 1..(k - 1) |-> (k + s) % 3],
                           [s \in 1..(k - 1) |-> 1 + ((k + s) % 2)])]

PlainPriors == PriorsOf(1, 2, 2, 1, 1, 1)

\* The inputs of a run: settings, priors and data.  Each group is varied
\* over its whole range with the other two held at a few plain values.
Inputs ==
    \* every settings dict, over plain data
    { [settings |-> SettingsOf(n, sm, fz, fZ), priors |-> PlainPriors,
       data |-> PlainData(k)] :
        n \in 1..MaxNiter, sm \in 0..MaxSaveMin, fz \in BOOLEAN,
        fZ \in BOOLEAN, k \in 1..MaxObj }
    \cup
    \* every prior record
    { [settings |-> SettingsOf(1, 0, FALSE, fZ),
       priors |-> PriorsOf(q[1], q[2], q[3], q[4], q[5], q[6]),
       data |-> PlainData(1)] :
        q \in [1..6 -> 1..MaxPrior], fZ \in BOOLEAN }
    \cup
    \* prior records with a rate that is zero or negative
    { [settings |-> SettingsOf(1, 0, FALSE, FALSE),
       priors |-> PriorsOf(1, q[1], 2, q[2], 1, q[3]),
       data |-> PlainData(1)] :
        q \in [1..3 -> {-1, 0, 1}] }
    \cup
    \* every assignment of true_labels
    { [settings |-> SettingsOf(1, 1, fz, FALSE), priors |-> PlainPriors,
       data |-> [k \in DOMAIN t |-> Object(<< 0 >>, t[k])]] :
        t \in SeqsUpTo(SeqsUpTo(TrueLabels, MaxLen), MaxObj) \ { << >> },
        fz \in BOOLEAN }
    \cup
    \* every z_init of the first of two objects
    { [settings |-> SettingsOf(1, 1, fz, fz), priors |-> PlainPriors,
       data |-> << Object(z, << 1 >>), Object(y, << 2, 1 >>) >>] :
        z \in SeqsUpTo(StateLabels, MaxZLen), y \in SeqsUpTo(StateLabels, 1),
        fz \in BOOLEAN }

NoValue == Ret("none", "none", 0)

NoF == [shape |-> << 0, 0 >>, ones |-> {}]

Init ==
    \E in \in Inputs :
        /\ pc = "settings"
        /\ data_struct = in.data
        /\ model = ModelOf(in.priors)
        /\ settings = in.settings
        /\ trial = 0 /\ Niter = 0
        /\ obsModel = [type |-> "none"] /\ obsModelType = "none"
        /\ HMMhyperparams = PriorsOf(0, 0, 0, 0, 0, 0)
        /\ numObj = 0
        /\ hyperparams = << >>
        /\ F = NoF /\ Fsrc = "none" /\ jj = 0
        /\ theta = NoValue /\ Ustats = NoValue /\ stateCounts = NoValue
        /\ S = NoValue /\ dist_struct = NoValue /\ Ustats_temp = NoValue
        /\ stateSeq = NoValue /\ INDS = NoValue
        /\ numInitThetaSamples = 0
        /\ ii = 0
        /\ total_length = 0 /\ length_ii = << >> /\ cummlength = << >>
        /\ z_tot = << >> /\ true_labels_tot = << >>
        /\ calls = << >>
        /\ settings_in = in.settings

\* ----------------------------------------------------------------- actions
\* A faulty default: saveMin is set to 1 whether or not it was given.
WithSaveMinForced(s) ==
    [k \in DOMAIN s \cup {"saveMin"} |-> IF k = "saveMin" THEN 1 ELSE s[k]]

\* lines 14-15
WithSaveMin(s) ==
    IF "saveMin" \notin DOMAIN s THEN s @@ ("saveMin" :> 1) ELSE s

\* lines 13-17
ReadSettings ==
    /\ pc = "settings"
    /\ trial' = settings["trial"]
    /\ settings' = WithSaveMin(settings)
    /\ Niter' = settings["Niter"]
    /\ pc' = "model"
    /\ UNCHANGED << settings_in, data_struct, model, obsModel, obsModelType,
                    HMMhyperparams, numObj, hyperparams, F, Fsrc, jj, theta,
                    Ustats, stateCounts, S, dist_struct, Ustats_temp,
                    stateSeq, INDS, numInitThetaSamples, ii, total_length,
                    length_ii, cummlength, z_tot, true_labels_tot, calls >>

\* lines 27-30
ReadModel ==
    /\ pc = "model"
    /\ obsModel' = model.obsModel
    /\ obsModelType' = model.obsModel.type
    /\ HMMhyperparams' = model.HMMmodel.params
    /\ numObj' = Len(data_struct)
    /\ pc' = "hyperparams"
    /\ UNCHANGED << settings_in, data_struct, model, settings, trial, Niter, hyperparams,
                    F, Fsrc, jj, theta, Ustats, stateCounts, S, dist_struct,
                    Ustats_temp, stateSeq, INDS, numInitThetaSamples, ii,
                    total_length, length_ii, cummlength, z_tot,
                    true_labels_tot, calls >>

\* A faulty kappa0: the ratio of the alpha prior, copied from line 33.
Kappa0FromAlpha(p) == Div(p.a_alpha, p.b_alpha)

\* A faulty sigma0: a ratio of priors, like its neighbours.
Sigma0FromKappa(p) == Div(p.a_kappa, p.b_kappa)

\* lines 33-36: the value stored under each of the four keys
Alpha0(p) == Div(p.a_alpha, p.b_alpha)
Kappa0(p) == Div(p.a_kappa, p.b_kappa)
Sigma0(p) == One
Gamma0(p) == Div(p.a_gamma, p.b_gamma)

\* The rates lines 33, 34 and 36 divide by.
Divisors(p) == << p.b_alpha, p.b_kappa, p.b_gamma >>

InitHyperparams ==
    /\ pc = "hyperparams"
    /\ \A n \in 1..3 : Divisors(HMMhyperparams)[n] # 0
    /\ hyperparams' = ("alpha0" :> Alpha0(HMMhyperparams))
                      @@ ("kappa0" :> Kappa0(HMMhyperparams))
                      @@ ("sigma0" :> Sigma0(HMMhyperparams))
                      @@ ("gamma0" :> Gamma0(HMMhyperparams))
    /\ pc' = "feature"
    /\ UNCHANGED << settings_in, data_struct, model, settings, trial, Niter, obsModel,
                    obsModelType, HMMhyperparams, numObj, F, Fsrc, jj, theta,
                    Ustats, stateCounts, S, dist_struct, Ustats_temp,
                    stateSeq, INDS, numInitThetaSamples, ii, total_length,
                    length_ii, cummlength, z_tot, true_labels_tot, calls >>

\* lines 33-36 when a rate is 0: the division raises ZeroDivisionError and
\* the routine ends there, with the keys of the lines before it assigned.
DivisionByZero ==
    /\ pc = "hyperparams"
    /\ \E n \in 1..3 : Divisors(HMMhyperparams)[n] = 0
    /\ hyperparams' =
           IF HMMhyperparams.b_alpha = 0 THEN << >>
           ELSE IF HMMhyperparams.b_kappa = 0
                THEN ("alpha0" :> Alpha0(HMMhyperparams))
                ELSE ("alpha0" :> Alpha0(HMMhyperparams))
                     @@ ("kappa0" :> Kappa0(HMMhyperparams))
                     @@ ("sigma0" :> Sigma0(HMMhyperparams))
    /\ pc' = "raised"
    /\ UNCHANGED << settings_in, data_struct, model, settings, trial, Niter,
                    obsModel, obsModelType, HMMhyperparams, numObj, F, Fsrc,
                    jj, theta, Ustats, stateCounts, S, dist_struct,
                    Ustats_temp, stateSeq, INDS, numInitThetaSamples, ii,
                    total_length, length_ii, cummlength, z_tot,
                    true_labels_tot, calls >>

\* A faulty line 42: every column up to the largest label is set, as a
\* slice would.
SetOnesUpTo(Fm, r, cols) ==
    IF cols = {} THEN Fm
    ELSE [shape |-> << Max(Fm.shape[1], r + 1),
                       Max(Fm.shape[2], SetMax(cols) + 1) >>,
          ones |-> Fm.ones \cup { << r, c >> : c \in 0..SetMax(cols) }]

\* line 42: F[jj, cols] = 1.  The matrix grows to hold the entries stored.
SetOnes(Fm, r, cols) ==
    IF cols = {} THEN Fm
    ELSE [shape |-> << Max(Fm.shape[1], r + 1),
                       Max(Fm.shape[2], SetMax(cols) + 1) >>,
          ones |-> Fm.ones \cup { << r, c >> : c \in cols }]

\* A faulty line 44: np.ones([cols, rows]).
OnesTransposed(rows, cols) ==
    [shape |-> << cols, rows >>,
     ones |-> { << r, c >> : r \in 0..(cols - 1), c \in 0..(rows - 1) }]

\* line 44: np.ones([rows, cols])
Ones(rows, cols) ==
    [shape |-> << rows, cols >>,
     ones |-> { << r, c >> : r \in 0..(rows - 1), c \in 0..(cols - 1) }]

\* line 40: the test that chooses how F is built
LabelsGiven(s) == "formZinit" \in DOMAIN s

\* lines 40-42, one pass of the loop over the objects
FeatureFromZinit ==
    /\ pc = "feature"
    /\ LabelsGiven(settings)
    /\ jj < Len(data_struct)
    /\ F' = SetOnes(F, jj, unique(data_struct[jj + 1].z_init))
    /\ Fsrc' = "z_init"
    /\ jj' = jj + 1
    /\ pc' = IF jj + 1 < Len(data_struct) THEN "feature" ELSE "init_structs"
    /\ UNCHANGED << settings_in, data_struct, model, settings, trial, Niter, obsModel,
                 obsModelType, HMMhyperparams, numObj, hyperparams, theta,
                 Ustats, stateCounts, S, dist_struct, Ustats_temp, stateSeq,
                 INDS, numInitThetaSamples, ii, total_length, length_ii,
                 cummlength, z_tot, true_labels_tot, calls >>

\* lines 43-44
FeatureDefault ==
    /\ pc = "feature"
    /\ ~LabelsGiven(settings)
    /\ F' = Ones(numObj, DefaultCols)
    /\ Fsrc' = "ones"
    /\ pc' = "init_structs"
    /\ UNCHANGED << settings_in, data_struct, model, settings, trial, Niter, obsModel,
                 obsModelType, HMMhyperparams, numObj, hyperparams, jj, theta,
                 Ustats, stateCounts, S, dist_struct, Ustats_temp, stateSeq,
                 INDS, numInitThetaSamples, ii, total_length, length_ii,
                 cummlength, z_tot, true_labels_tot, calls >>

\* What the collaborators return.  initializeStructs hands back the
\* observation set and the model it was given (whatever it attaches to them
\* is not read by this routine).
initializeStructs(Fm, m, d, s, at) ==
    [theta |-> Ret("initializeStructs", "theta", at),
     Ustats |-> Ret("initializeStructs", "Ustats", at),
     stateCounts |-> Ret("initializeStructs", "stateCounts", at),
     data_struct |-> d,
     model |-> m,
     S |-> Ret("initializeStructs", "S", at)]

sample_dist(at) == Ret("sample_dist", "dist_struct", at)

sample_zs_init(at) ==
    [stateSeq |-> Ret("sample_zs_init", "stateSeq", at),
     INDS |-> Ret("sample_zs_init", "INDS", at),
     stateCounts |-> Ret("sample_zs_init", "stateCounts", at)]

update_Ustats(at) == Ret("update_Ustats", "Ustats", at)

sample_theta(at) == Ret("sample_theta", "theta", at)

\* The state label sample_zs_init gives object k at time step s, where the
\* object's z_init fixes it: that label.
FixedStateLabel(d, k, s) == d[k].z_init[s]

\* The index the next call gets in calls.
NextCall == Len(calls) + 1

\* line 52: the arguments of initializeStructs
InitializeStructsArgs == << F, model, data_struct, settings >>

\* line 52
InitializeStructs ==
    /\ pc = "init_structs"
    /\ LET r == initializeStructs(F, model, data_struct, settings, NextCall)
       IN  /\ theta' = r.theta
           /\ Ustats' = r.Ustats
           /\ stateCounts' = r.stateCounts
           /\ data_struct' = r.data_struct
           /\ model' = r.model
           /\ S' = r.S
           /\ calls' = Append(calls, Call("initializeStructs",
                                          InitializeStructsArgs, r))
    /\ pc' = "sample_dist"
    /\ UNCHANGED << settings_in, settings, trial, Niter, obsModel, obsModelType,
                 HMMhyperparams, numObj, hyperparams, F, Fsrc, jj, dist_struct,
                 Ustats_temp, stateSeq, INDS, numInitThetaSamples, ii,
                 total_length, length_ii, cummlength, z_tot, true_labels_tot >>

\* A faulty line 56: the prior record passed in place of hyperparams.
SampleDistArgsPriors == << stateCounts, HMMhyperparams, numObj >>

\* line 56: the arguments of sample_dist
SampleDistArgs == << stateCounts, hyperparams, numObj >>

\* line 56
SampleDist ==
    /\ pc = "sample_dist"
    /\ dist_struct' = sample_dist(NextCall)
    /\ calls' = Append(calls, Call("sample_dist", SampleDistArgs,
                                   sample_dist(NextCall)))
    /\ pc' = "init_z"
    /\ UNCHANGED << settings_in, data_struct, model, settings, trial, Niter, obsModel,
                 obsModelType, HMMhyperparams, numObj, hyperparams, F, Fsrc,
                 jj, theta, Ustats, stateCounts, S, Ustats_temp, stateSeq,
                 INDS, numInitThetaSamples, ii, total_length, length_ii,
                 cummlength, z_tot, true_labels_tot >>

\* line 60: the test that chooses whether an initial z is sampled
FormInitialZ(s) == "formZInit" \in DOMAIN s

\* lines 60-62
SampleZsInit ==
    /\ pc = "init_z"
    /\ FormInitialZ(settings)
    /\ Ustats_temp' = Ustats
    /\ LET r == sample_zs_init(NextCall)
       IN  /\ stateSeq' = r.stateSeq
           /\ INDS' = r.INDS
           /\ stateCounts' = r.stateCounts
           /\ calls' = Append(calls,
                  Call("sample_zs_init",
                       << data_struct, dist_struct, obsModelType >>, r))
    /\ pc' = "update_Ustats"
    /\ UNCHANGED << settings_in, data_struct, model, settings, trial, Niter, obsModel,
                 obsModelType, HMMhyperparams, numObj, hyperparams, F, Fsrc,
                 jj, theta, Ustats, S, dist_struct, numInitThetaSamples, ii,
                 total_length, length_ii, cummlength, z_tot, true_labels_tot >>

\* lines 64 and 67: the number of further parameter draws
NumInitWithZ == 1
NumInitWithoutZ == 1

\* lines 63-65
UpdateUstats ==
    /\ pc = "update_Ustats"
    /\ Ustats' = update_Ustats(NextCall)
    /\ calls' = Append(calls,
           Call("update_Ustats",
                << data_struct, INDS, stateCounts, obsModelType >>,
                update_Ustats(NextCall)))
    /\ numInitThetaSamples' = NumInitWithZ
    /\ pc' = "theta"
    /\ UNCHANGED << settings_in, data_struct, model, settings, trial, Niter, obsModel,
                 obsModelType, HMMhyperparams, numObj, hyperparams, F, Fsrc,
                 jj, theta, stateCounts, S, dist_struct, Ustats_temp, stateSeq,
                 INDS, ii, total_length, length_ii, cummlength, z_tot,
                 true_labels_tot >>

\* lines 66-67
NoInitialZ ==
    /\ pc = "init_z"
    /\ ~FormInitialZ(settings)
    /\ numInitThetaSamples' = NumInitWithoutZ
    /\ pc' = "theta"
    /\ UNCHANGED << settings_in, data_struct, model, settings, trial, Niter, obsModel,
                 obsModelType, HMMhyperparams, numObj, hyperparams, F, Fsrc,
                 jj, theta, Ustats, stateCounts, S, dist_struct, Ustats_temp,
                 stateSeq, INDS, ii, total_length, length_ii, cummlength,
                 z_tot, true_labels_tot, calls >>

\* A faulty line 69: the statistics saved at line 61 passed in place of the
\* current ones.
FirstThetaArgsSaved == << theta, Ustats_temp, obsModel, numObj >>

\* A faulty line 71: the theta of initializeStructs passed again.
LoopThetaArgsStale == << calls[1].ret.theta, Ustats, obsModel, 0 >>

\* lines 69 and 71: the arguments of sample_theta
FirstThetaArgs == << theta, Ustats, obsModel, numObj >>
LoopThetaArgs == << theta, Ustats, obsModel, 0 >>

\* line 69
SampleThetaFirst ==
    /\ pc = "theta"
    /\ theta' = sample_theta(NextCall)
    /\ calls' = Append(calls, Call("sample_theta", FirstThetaArgs,
                                   sample_theta(NextCall)))
    /\ ii' = 0
    /\ pc' = IF 0 < numInitThetaSamples THEN "theta_loop" ELSE "lengths_init"
    /\ UNCHANGED << settings_in, data_struct, model, settings, trial, Niter, obsModel,
                 obsModelType, HMMhyperparams, numObj, hyperparams, F, Fsrc,
                 jj, Ustats, stateCounts, S, dist_struct, Ustats_temp,
                 stateSeq, INDS, numInitThetaSamples, total_length, length_ii,
                 cummlength, z_tot, true_labels_tot >>

\* lines 70-71, one pass of the loop
SampleThetaLoop ==
    /\ pc = "theta_loop"
    /\ ii < numInitThetaSamples
    /\ theta' = sample_theta(NextCall)
    /\ calls' = Append(calls, Call("sample_theta", LoopThetaArgs,
                                   sample_theta(NextCall)))
    /\ ii' = ii + 1
    /\ pc' = IF ii + 1 < numInitThetaSamples THEN "theta_loop"
             ELSE "lengths_init"
    /\ UNCHANGED << settings_in, data_struct, model, settings, trial, Niter, obsModel,
                 obsModelType, HMMhyperparams, numObj, hyperparams, F, Fsrc,
                 jj, Ustats, stateCounts, S, dist_struct, Ustats_temp,
                 stateSeq, INDS, numInitThetaSamples, total_length, length_ii,
                 cummlength, z_tot, true_labels_tot >>

\* lines 89-90
LengthsInit ==
    /\ pc = "lengths_init"
    /\ total_length' = 0
    /\ length_ii' = Zeros(Len(data_struct))
    /\ ii' = 0
    /\ pc' = IF 0 < Len(data_struct) THEN "lengths" ELSE "alloc"
    /\ UNCHANGED << settings_in, data_struct, model, settings, trial, Niter, obsModel,
                 obsModelType, HMMhyperparams, numObj, hyperparams, F, Fsrc,
                 jj, theta, Ustats, stateCounts, S, dist_struct, Ustats_temp,
                 stateSeq, INDS, numInitThetaSamples, cummlength, z_tot,
                 true_labels_tot, calls >>

\* lines 91-93, one pass of the loop
LengthOfObject ==
    /\ pc = "lengths"
    /\ ii < Len(data_struct)
    /\ length_ii' = [length_ii EXCEPT
                        ![ii + 1] = Len(data_struct[ii + 1].true_labels)]
    /\ total_length' = total_length + length_ii'[ii + 1]
    /\ ii' = ii + 1
    /\ pc' = IF ii + 1 < Len(data_struct) THEN "lengths" ELSE "alloc"
    /\ UNCHANGED << settings_in, data_struct, model, settings, trial, Niter, obsModel,
                 obsModelType, HMMhyperparams, numObj, hyperparams, F, Fsrc,
                 jj, theta, Ustats, stateCounts, S, dist_struct, Ustats_temp,
                 stateSeq, INDS, numInitThetaSamples, cummlength, z_tot,
                 true_labels_tot, calls >>

\* cummlength[-1]
Last(s) == s[Len(s)]

\* lines 95-97
Allocate ==
    /\ pc = "alloc"
    /\ cummlength' = CumSum(length_ii)
    /\ z_tot' = Zeros(Last(cummlength'))
    /\ true_labels_tot' = Zeros(Last(cummlength'))
    /\ pc' = "flatten_first"
    /\ UNCHANGED << settings_in, data_struct, model, settings, trial, Niter, obsModel,
                 obsModelType, HMMhyperparams, numObj, hyperparams, F, Fsrc,
                 jj, theta, Ustats, stateCounts, S, dist_struct, Ustats_temp,
                 stateSeq, INDS, numInitThetaSamples, ii, total_length,
                 length_ii, calls >>

\* lines 98 and 100: the first and the last index an object is stored at
FirstSlot(k) == IF k = 1 THEN 1 ELSE cummlength[k - 1] + 1
LastSlot(k) == IF k = 1 THEN length_ii[1] ELSE cummlength[k]

\* line 98
FlattenFirst ==
    /\ pc = "flatten_first"
    /\ true_labels_tot' = AssignRange(true_labels_tot, FirstSlot(1),
                                      LastSlot(1),
                                      data_struct[1].true_labels)
    /\ ii' = 2
    /\ pc' = IF 2 <= Len(data_struct) THEN "flatten_rest" ELSE "done"
    /\ UNCHANGED << settings_in, data_struct, model, settings, trial, Niter, obsModel,
                 obsModelType, HMMhyperparams, numObj, hyperparams, F, Fsrc,
                 jj, theta, Ustats, stateCounts, S, dist_struct, Ustats_temp,
                 stateSeq, INDS, numInitThetaSamples, total_length, length_ii,
                 cummlength, z_tot, calls >>

\* lines 99-100, one pass of the loop
FlattenRest ==
    /\ pc = "flatten_rest"
    /\ ii <= Len(data_struct)
    /\ true_labels_tot' = AssignRange(true_labels_tot, FirstSlot(ii),
                                      LastSlot(ii),
                                      data_struct[ii].true_labels)
    /\ ii' = ii + 1
    /\ pc' = IF ii + 1 <= Len(data_struct) THEN "flatten_rest" ELSE "done"
    /\ UNCHANGED << settings_in, data_struct, model, settings, trial, Niter, obsModel,
                 obsModelType, HMMhyperparams, numObj, hyperparams, F, Fsrc,
                 jj, theta, Ustats, stateCounts, S, dist_struct, Ustats_temp,
                 stateSeq, INDS, numInitThetaSamples, total_length, length_ii,
                 cummlength, z_tot, calls >>

Next ==
    \/ ReadSettings
    \/ ReadModel
    \/ InitHyperparams
    \/ DivisionByZero
    \/ FeatureFromZinit
    \/ FeatureDefault
    \/ InitializeStructs
    \/ SampleDist
    \/ SampleZsInit
    \/ UpdateUstats
    \/ NoInitialZ
    \/ SampleThetaFirst
    \/ SampleThetaLoop
    \/ LengthsInit
    \/ LengthOfObject
    \/ Allocate
    \/ FlattenFirst
    \/ FlattenRest

Spec == Init /\ [][Next]_vars


\* ------------------------------------------------------------------ claims
\* The positions in calls of the calls of fn.
Idx(fn) == { k \in DOMAIN calls : calls[k].fn = fn }

\* The positions of the calls of sample_theta, in order.
ThetaCalls == SelectSeq([k \in DOMAIN calls |-> k],
                        LAMBDA k : calls[k].fn = "sample_theta")

FourKeys == {"alpha0", "kappa0", "sigma0", "gamma0"}

\* The collaborators of the bootstrap up to the first parameter draw, in
\* the order the bootstrap is to call them.
BootOrder(withZ) ==
    << "initializeStructs", "sample_dist" >>
    \o (IF withZ THEN << "sample_zs_init", "update_Ustats" >> ELSE << >>)
    \o << "sample_theta" >>

\* Sum of the lengths of the true_labels of objects 1..k.
RECURSIVE SumLen(_)
SumLen(k) == IF k = 0 THEN 0
             ELSE SumLen(k - 1) + Len(data_struct[k].true_labels)

Bootstrapped == pc \in {"lengths_init", "lengths", "alloc", "flatten_first",
                        "flatten_rest", "done"}

\* C1: the bootstrap calls happen in one fixed order.  The hyperparameters
\* are derived before F is built; F is complete before initializeStructs is
\* called, and is what it is called with; sample_dist comes next, with the
\* stateCounts initializeStructs returned and the derived hyperparameters;
\* sample_zs_init and then update_Ustats follow only in the branch of line
\* 60; the first sample_theta comes after all of these, and only
\* sample_theta is called after it.
C1_BootstrapOrder ==
    /\ Fsrc # "none" => DOMAIN hyperparams = FourKeys
    /\ calls # << >> => Fsrc # "none" /\ pc # "feature"
    /\ \A k \in DOMAIN calls :
           LET order == BootOrder(FormInitialZ(settings))
           IN  calls[k].fn = IF k <= Len(order) THEN order[k]
                             ELSE "sample_theta"
    /\ Len(calls) >= 1 => calls[1].args[1] = F
    /\ Len(calls) >= 2 =>
           /\ calls[2].args[1] = calls[1].ret.stateCounts
           /\ calls[2].args[2] = hyperparams
           /\ DOMAIN calls[2].args[2] = FourKeys

\* C1 witness: a finished run of the branch that samples an initial z.
C1_Witness ==
    /\ pc = "done"
    /\ FormInitialZ(settings)
    /\ [k \in 1..5 |-> calls[k].fn] = BootOrder(TRUE)

\* C2 (as stated): F is built from z_init if and only if sample_zs_init and
\* update_Ustats are each called exactly once before the first sample_theta.
C2_BranchesAgree ==
    Idx("sample_theta") # {} =>
        ( Fsrc = "z_init"
          <=> /\ Cardinality(Idx("sample_zs_init")) = 1
              /\ Cardinality(Idx("update_Ustats")) = 1 )

\* The calls made after the bootstrap and the flattening: the sweep.
BootLen == Len(BootOrder(FormInitialZ(settings))) + numInitThetaSamples

SweepOrder == << "sample_dist", "sample_zs", "update_Ustats", "sample_theta",
                 "sample_hyperparams", "StatsRecorder" >>

\* C3 (as stated): by the end of the run each of the Niter iterations has
\* called the six sweep steps in order, and the state sequence sampler of an
\* iteration was given the transition distributions that iteration sampled.
C3_SweepOrder ==
    pc = "done" =>
        /\ Len(calls) = BootLen + 6 * Niter
        /\ \A i \in 1..Niter :
               LET base == BootLen + 6 * (i - 1)
               IN  /\ \A s \in 1..6 : calls[base + s].fn = SweepOrder[s]
                   /\ calls[base + 2].args[2] = calls[base + 1].ret

\* C4: after the bootstrap the resampling count is 1, sample_theta has been
\* called exactly twice, the first call was given the theta initializeStructs
\* returned, every later call the theta the call before it returned, and
\* theta is what the last call returned.
C4_ThetaChain ==
    Bootstrapped =>
        /\ numInitThetaSamples = 1
        /\ Len(ThetaCalls) = 2
        /\ calls[ThetaCalls[1]].args[1] = calls[1].ret.theta
        /\ \A n \in 2..Len(ThetaCalls) :
               calls[ThetaCalls[n]].args[1] = calls[ThetaCalls[n - 1]].ret
        /\ theta = calls[ThetaCalls[Len(ThetaCalls)]].ret

\* C4 witness: the bootstrap is over in the branch that sampled an initial z.
C4_Witness ==
    /\ pc = "lengths_init"
    /\ Idx("update_Ustats") # {}
    /\ Len(ThetaCalls) = 2

\* v is the fraction a / b in lowest terms.
IsRatio(v, a, b) ==
    /\ v[2] > 0
    /\ v[1] * b = a * v[2]
    /\ \A d \in 2..v[2] : ~(v[1] % d = 0 /\ v[2] % d = 0)

PositiveRates(p) == p.b_alpha > 0 /\ p.b_kappa > 0 /\ p.b_gamma > 0

\* C5: for priors with positive rates: once derived, alpha0, kappa0 and gamma0 are the ratios of their
\* prior's shape and rate and sigma0 is 1; each value is determined by the
\* priors alone.
C5_Hyperparams ==
    hyperparams # << >> /\ PositiveRates(model.HMMmodel.params) =>
        LET p == model.HMMmodel.params
        IN  /\ DOMAIN hyperparams = FourKeys
            /\ IsRatio(hyperparams["alpha0"], p.a_alpha, p.b_alpha)
            /\ IsRatio(hyperparams["kappa0"], p.a_kappa, p.b_kappa)
            /\ IsRatio(hyperparams["gamma0"], p.a_gamma, p.b_gamma)
            /\ hyperparams["sigma0"] = << 1, 1 >>

\* C5 witness: priors whose three ratios differ from each other and from 1.
C5_Witness ==
    /\ pc = "done"
    /\ hyperparams["alpha0"] = << 1, 2 >>
    /\ hyperparams["kappa0"] = << 2, 1 >>
    /\ hyperparams["gamma0"] = << 1, 1 >>
    /\ model.HMMmodel.params.b_gamma = 2

\* The columns of row r that are allowed.
Allowed(r) == { e[2] : e \in { x \in F.ones : x[1] = r } }

\* C6: when F is built from z_init, the allowed columns of the row of every
\* object handled so far are exactly the state indices that occur in its
\* z_init, no entry lies outside the objects' rows, and a row whose z_init
\* is not empty has an allowed column.
C6_FeatureFromLabels ==
    Fsrc = "z_init" =>
        /\ \A r \in 0..(jj - 1) :
               LET z == data_struct[r + 1].z_init
               IN  /\ \A c \in Allowed(r) : \E s \in DOMAIN z : z[s] = c
                   /\ \A s \in DOMAIN z : z[s] \in Allowed(r)
                   /\ z # << >> => Allowed(r) # {}
        /\ \A e \in F.ones : e[1] \in 0..(jj - 1)
        /\ pc # "feature" => jj = Len(data_struct)

\* C6 witness: labels {0: [0,2,2], 1: [1]} give columns {0,2} and {1}.
C6_Witness ==
    /\ pc = "done"
    /\ Fsrc = "z_init"
    /\ data_struct[1].z_init = << 0, 2, 2 >>
    /\ data_struct[2].z_init = << 1 >>
    /\ Allowed(0) = {0, 2}
    /\ Allowed(1) = {1}

\* C7: when F is not built from z_init it has one row per object and 20
\* columns, and every entry is allowed.
C7_FeatureDefault ==
    Fsrc = "ones" =>
        /\ F.shape = << Len(data_struct), 20 >>
        /\ \A r \in 0..(Len(data_struct) - 1) : Allowed(r) = 0..19
        /\ Cardinality(F.ones) = 20 * Len(data_struct)

\* C7 witness: the default matrix of two objects.
C7_Witness ==
    /\ pc = "done"
    /\ Fsrc = "ones"
    /\ Len(data_struct) = 2
    /\ F.shape = << 2, 20 >>

\* C8: at the end, true_labels_tot holds the true_labels of object k at the
\* positions after the first cummlength[k-1] (0 for the first object), in
\* the object's own order, and nothing else.
C8_FlattenSlices ==
    pc = "done" =>
        /\ Len(true_labels_tot) = SumLen(Len(data_struct))
        /\ \A k \in DOMAIN data_struct :
               LET off == IF k = 1 THEN 0 ELSE cummlength[k - 1]
                   lab == data_struct[k].true_labels
               IN  /\ off = SumLen(k - 1)
                   /\ cummlength[k] = off + Len(lab)
                   /\ \A s \in DOMAIN lab : true_labels_tot[off + s] = lab[s]

\* C8 witness: an object of length zero followed by one of length two.
C8_Witness ==
    /\ pc = "done"
    /\ Len(data_struct) = 2
    /\ data_struct[1].true_labels = << >>
    /\ data_struct[2].true_labels = << 2, 1 >>
    /\ true_labels_tot = << 2, 1 >>

\* C9: once computed, cummlength is non-decreasing, its entry for object k
\* is the sum of the lengths of objects 1..k, its last entry is total_length,
\* the sum of all lengths, and z_tot and true_labels_tot have that length.
C9_CumulativeLengths ==
    pc \in {"flatten_first", "flatten_rest", "done"} =>
        /\ Len(cummlength) = Len(data_struct)
        /\ \A k \in DOMAIN cummlength : cummlength[k] = SumLen(k)
        /\ \A k \in 2..Len(cummlength) : cummlength[k - 1] <= cummlength[k]
        /\ cummlength[Len(cummlength)] = total_length
        /\ total_length = SumLen(Len(data_struct))
        /\ Len(z_tot) = total_length
        /\ Len(true_labels_tot) = total_length

\* C9 witness: two objects of lengths 2 and 1.
C9_Witness ==
    /\ pc = "done"
    /\ length_ii = << 2, 1 >>
    /\ cummlength = << 2, 3 >>
    /\ total_length = 3

\* The iterations a snapshot was persisted for.
Persisted == { calls[k].args[1] : k \in Idx("StatsRecorder") }

\* C10 (as stated): at the end of the run the iterations persisted are those
\* that saveMin divides, and the last one.
C10_SavedIterations ==
    pc = "done" =>
        Persisted = { i \in 1..Niter : i % settings["saveMin"] = 0 }
                    \cup { Niter }

\* The keys of settings other than saveMin.
OtherKeys(s) == DOMAIN s \ {"saveMin"}

\* C11: after lines 13-17 settings has a saveMin entry: 1 when the dict
\* passed in had none, the value passed in otherwise; every other entry is
\* the one passed in, and none is added or removed, then and for the rest
\* of the run.
C11_SaveMinDefault ==
    /\ OtherKeys(settings) = OtherKeys(settings_in)
    /\ \A k \in OtherKeys(settings_in) : settings[k] = settings_in[k]
    /\ "saveMin" \in DOMAIN settings_in =>
           /\ "saveMin" \in DOMAIN settings
           /\ settings["saveMin"] = settings_in["saveMin"]
    /\ "saveMin" \notin DOMAIN settings_in =>
           IF pc = "settings" THEN "saveMin" \notin DOMAIN settings
           ELSE /\ "saveMin" \in DOMAIN settings
                /\ settings["saveMin"] = 1

\* C11 witness: a finished run whose settings had no saveMin and had both
\* of the optional flags.
C11_Witness ==
    /\ pc = "done"
    /\ "saveMin" \notin DOMAIN settings_in
    /\ settings["saveMin"] = 1
    /\ {"formZinit", "formZInit"} \subseteq DOMAIN settings
    /\ settings_in["Niter"] = 2

\* The sweep iterations run: each begins by resampling the transition
\* distributions, so they are the calls of sample_dist after the bootstrap.
SweepsRun ==
    Cardinality({ k \in Idx("sample_dist") : k > BootLen })

\* C13 (as stated): a run in which no collaborator fails ends, in Done,
\* after exactly Niter sweep iterations.
C13_DoneAfterNiter ==
    pc = "done" => SweepsRun = Niter

\* C14 (as stated): when a rate is zero or negative no collaborator is
\* ever called.
C14_NoSamplingOnBadRate ==
    ~PositiveRates(model.HMMmodel.params) => calls = << >>

\* Some object has a per-time-step field, z_init, whose length is not the
\* object's sequence length, the length the routine records in length_ii.
LengthMismatch ==
    \E k \in DOMAIN data_struct :
        Len(data_struct[k].z_init) # Len(data_struct[k].true_labels)

\* C15 (as stated): when a per-time-step field of some object has a length
\* other than the object's sequence length, the run fails before it
\* produces any flattened array.
C15_ShapeErrorOnMismatch ==
    LengthMismatch => pc \notin {"flatten_first", "flatten_rest", "done"}

\* C16 (as stated), for the time steps whose state label is known: at the
\* end of a run that sampled an initial state sequence, z_tot holds, at the
\* offset of each object, the state labels of that object; where z_init
\* fixes the label of a time step, that is the label.
C16_ZTotConcatenation ==
    pc = "done" /\ stateSeq # NoValue =>
        \A k \in DOMAIN data_struct :
            LET off == IF k = 1 THEN 0 ELSE cummlength[k - 1]
                len == Len(data_struct[k].true_labels)
            IN  \A s \in DOMAIN data_struct[k].z_init :
                    s <= len =>
                        z_tot[off + s] = FixedStateLabel(data_struct, k, s)

\* C17 (as stated): every bootstrap call of sample_theta is given the
\* current sufficient statistics, the observation model and the object
\* count numObj = len(data_struct).
C17_ThetaArguments ==
    \A k \in Idx("sample_theta") :
        /\ calls[k].args[2] = Ustats
        /\ calls[k].args[3] = model.obsModel
        /\ calls[k].args[4] = Len(data_struct)

\* C18: the sufficient statistics a bootstrap call of sample_theta is given
\* are, in the branch that samples an initial z, those update_Ustats
\* returned, update_Ustats having been given the INDS and the stateCounts
\* sample_zs_init returned; in the other branch they are those
\* initializeStructs returned, and neither sample_zs_init nor update_Ustats
\* is ever called.
C18_UstatsFlow ==
    IF FormInitialZ(settings_in)
    THEN \A k \in Idx("sample_theta") :
             \E z \in Idx("sample_zs_init"), u \in Idx("update_Ustats") :
                 /\ z < u /\ u < k
                 /\ calls[u].args[2] = calls[z].ret.INDS
                 /\ calls[u].args[3] = calls[z].ret.stateCounts
                 /\ calls[k].args[2] = calls[u].ret
    ELSE /\ Idx("sample_zs_init") = {}
         /\ Idx("update_Ustats") = {}
         /\ \A k \in Idx("sample_theta") :
                calls[k].args[2] = calls[1].ret.Ustats

\* C18 witness: both bootstrap draws made after an initial z was sampled.
C18_Witness ==
    /\ pc = "done"
    /\ FormInitialZ(settings_in)
    /\ Cardinality(Idx("sample_theta")) = 2
    /\ Cardinality(Idx("update_Ustats")) = 1

\* C19: from their derivation to the end of the run alpha0, kappa0 and
\* gamma0 are the ratios of their priors and sigma0 is 1, sample_dist, the
\* collaborator that is handed hyperparams, was handed exactly these, and no
\* step of the routine writes hyperparams once it is set.
C19_HyperparamsFrozen ==
    /\ [](pc \notin {"settings", "model", "hyperparams", "raised"} =>
            LET p == model.HMMmodel.params
            IN  /\ DOMAIN hyperparams = FourKeys
                /\ IsRatio(hyperparams["alpha0"], p.a_alpha, p.b_alpha)
                /\ IsRatio(hyperparams["kappa0"], p.a_kappa, p.b_kappa)
                /\ IsRatio(hyperparams["gamma0"], p.a_gamma, p.b_gamma)
                /\ hyperparams["sigma0"] = << 1, 1 >>
                /\ \A k \in Idx("sample_dist") :
                       calls[k].args[2] = hyperparams)
    /\ [][hyperparams # << >> => hyperparams' = hyperparams]_vars

\* C19 witness: a finished run in which sample_dist was handed the ratios.
C19_Witness ==
    /\ pc = "done"
    /\ Idx("sample_dist") = {2}
    /\ calls[2].args[2]["alpha0"] = << 1, 2 >>
    /\ calls[2].args[2]["kappa0"] = << 2, 1 >>
    /\ calls[2].args[2]["sigma0"] = << 1, 1 >>

=============================================================================
